---- MODULE Spec2Model ----
(***************************************************************************)
(* Call-session store and turn loop of the conversational phone system.    *)
(*   src/src/utils/conversation.js   ConversationManager (session store)   *)
(*   src/unnamed/part_002            VoiceController (webhook handlers)    *)
(*   src/src/services/openai.js      OpenAIService (completion, analysis)  *)
(*   src/src/services/elevenlabs.js  ElevenLabsService (synthesis)         *)
(*   src/src/services/twilio.js      TwilioService (TwiML rendering)       *)
(*                                                                         *)
(* Node runs one callback at a time: a handler runs without interruption   *)
(* up to its next await of a network request, so every action below is one *)
(* such run-to-completion segment.  Time is a counter of abstract clock    *)
(* units (Date.now()); averageResponseTime is an exact rational            *)
(* [num, den], with den = 0 for the IEEE values Infinity (num = 1),        *)
(* -Infinity (num = -1) and NaN (num = 0).                                 *)
(***************************************************************************)
EXTENDS Integers, Sequences, FiniteSets, TLC

VARIABLES sessions, now, reqs, response, recorded, phoneSpeech

vars == <<sessions, now, reqs, response, recorded, phoneSpeech>>

(* ------------------------------ bounds -------------------------------- *)

\* speech requests (POST /webhook/process-speech) of a call whose requests
\* overlap
MaxTurns == 3

\* the number of speech requests of a call whose requests come one at a time
MaxSeqTurns == 2

\* last value of the clock
MaxTime == 2

\* speech requests being processed at the same time, where they overlap
MaxInFlight == 2

\* the configured MAX_CONVERSATION_LENGTH (config.app.maxConversationLength)
maxConversationLength == 4

\* the longest text given to optimizeTextForPhone, in characters
MaxTextLen == 4

(* ----------------------------- constants ------------------------------ *)

\* 60 * 60 * 1000 ms: the clock unit is one hour
OneHour == 1

CallSids == {"c1", "c2"}

Reqs == 1 .. MaxTurns

\* JavaScript null and undefined, and the booleans of a JSON analysis
Null == "<null>"

Undefined == "<undefined>"

JsTrue == "<true>"

JsFalse == "<false>"

NoSession == [absent |-> TRUE]

(* --------------------------- rational numbers -------------------------- *)

Abs(x) == IF x < 0 THEN -x ELSE x

RECURSIVE GCD(_, _)
GCD(a, b) == IF b = 0 THEN a ELSE GCD(b, a % b)

\* the number n / d for d > 0, in lowest terms
Rat(n, d) ==
    LET g == GCD(Abs(n), d)
    IN  IF n = 0 THEN [num |-> 0, den |-> 1] ELSE [num |-> n \div g, den |-> d \div g]

Zero == Rat(0, 1)

PosInf == [num |-> 1, den |-> 0]

NegInf == [num |-> -1, den |-> 0]

NaN == [num |-> 0, den |-> 0]

IsFinite(x) == x.den > 0

\* x * k for an integer k
MulInt(x, k) ==
    IF IsFinite(x) THEN Rat(x.num * k, x.den)
    ELSE IF x = NaN \/ k = 0 THEN NaN
    ELSE IF k > 0 THEN x
    ELSE [num |-> -x.num, den |-> 0]

\* x + k for an integer k
AddInt(x, k) == IF IsFinite(x) THEN Rat(x.num + k * x.den, x.den) ELSE x

\* x / k for an integer k >= 0
DivInt(x, k) ==
    IF ~IsFinite(x) THEN x
    ELSE IF k = 0
         THEN IF x.num > 0 THEN PosInf ELSE IF x.num < 0 THEN NegInf ELSE NaN
         ELSE Rat(x.num, x.den * k)

(* ---------------------------- session store ---------------------------- *)

\* createSession: the record stored under callSid
NewSession(callSid, t) ==
    [ callSid      |-> callSid,
      startTime    |-> t,
      lastActivity |-> t,
      messages     |-> << >>,
      context      |-> [userName |-> Null, topic |-> Null, mood |-> "neutral"],
      metadata     |-> [totalMessages |-> 0, averageResponseTime |-> Zero, errors |-> 0] ]

createSession(S, callSid, t) == [S EXCEPT ![callSid] = NewSession(callSid, t)]

\* getSession that returns a stored session as it is
getSessionNoRefresh(S, callSid, t) ==
    IF S[callSid] = NoSession THEN createSession(S, callSid, t) ELSE S

\* getSession: the store after the call (the session is S'[callSid])
getSession(S, callSid, t) ==
    IF S[callSid] = NoSession
    THEN createSession(S, callSid, t)
    ELSE [S EXCEPT ![callSid].lastActivity = t]

\* messages.slice(-n) for n > 0
SliceLast(seq, n) ==
    IF Len(seq) > n THEN SubSeq(seq, Len(seq) - n + 1, Len(seq)) ELSE seq

\* a message of the history; its timestamp and metadata are written once and
\* read by no operation, and are left out
Message(role, content) == [role |-> role, content |-> content]

\* addMessage with the window test off by one
addMessageOffByOne(S, callSid, role, content, t) ==
    LET S1     == getSession(S, callSid, t)
        pushed == Append(S1[callSid].messages, Message(role, content))
    IN  [S1 EXCEPT ![callSid].messages =
                       IF Len(pushed) > maxConversationLength + 1
                       THEN SliceLast(pushed, maxConversationLength)
                       ELSE pushed,
                   ![callSid].metadata.totalMessages = @ + 1,
                   ![callSid].lastActivity = t]

\* addMessage counting the messages of the window instead of the appends
addMessageCountWindow(S, callSid, role, content, t) ==
    LET S1     == getSession(S, callSid, t)
        pushed == Append(S1[callSid].messages, Message(role, content))
        kept   == IF Len(pushed) > maxConversationLength
                  THEN SliceLast(pushed, maxConversationLength)
                  ELSE pushed
    IN  [S1 EXCEPT ![callSid].messages = kept,
                   ![callSid].metadata.totalMessages = Len(kept),
                   ![callSid].lastActivity = t]

\* addMessage keeping the first messages of the list when it is too long
addMessageKeepOldest(S, callSid, role, content, t) ==
    LET S1     == getSession(S, callSid, t)
        pushed == Append(S1[callSid].messages, Message(role, content))
    IN  [S1 EXCEPT ![callSid].messages =
                       IF Len(pushed) > maxConversationLength
                       THEN SubSeq(pushed, 1, maxConversationLength)
                       ELSE pushed,
                   ![callSid].metadata.totalMessages = @ + 1,
                   ![callSid].lastActivity = t]

\* addMessage putting the message at the head of the list
addMessageUnshift(S, callSid, role, content, t) ==
    LET S1     == getSession(S, callSid, t)
        pushed == <<Message(role, content)>> \o S1[callSid].messages
    IN  [S1 EXCEPT ![callSid].messages =
                       IF Len(pushed) > maxConversationLength
                       THEN SliceLast(pushed, maxConversationLength)
                       ELSE pushed,
                   ![callSid].metadata.totalMessages = @ + 1,
                   ![callSid].lastActivity = t]

addMessage(S, callSid, role, content, t) ==
    LET S1     == getSession(S, callSid, t)
        pushed == Append(S1[callSid].messages, Message(role, content))
    IN  [S1 EXCEPT ![callSid].messages =
                       IF Len(pushed) > maxConversationLength
                       THEN SliceLast(pushed, maxConversationLength)
                       ELSE pushed,
                   ![callSid].metadata.totalMessages = @ + 1,
                   ![callSid].lastActivity = t]

\* if (x) for the value of a context field
Truthy(x) == x \notin {Null, Undefined, JsFalse, ""}

\* getSystemPrompt appending a line for each of the two fields that is set
getSystemPromptBoth(session) ==
    [ base      |-> "basePrompt",
      started   |-> session.startTime,
      exchanged |-> session.metadata.totalMessages,
      extra     |-> (IF Truthy(session.context.userName)
                     THEN << <<"User's name", session.context.userName>> >>
                     ELSE << >>)
                    \o (IF Truthy(session.context.topic)
                        THEN << <<"Current topic", session.context.topic>> >>
                        ELSE << >>) ]

\* getSystemPrompt: the fixed preamble with the two context lines it always
\* carries (basePrompt), and the lines appended to it
getSystemPrompt(session) ==
    [ base      |-> "basePrompt",
      started   |-> session.startTime,
      exchanged |-> session.metadata.totalMessages,
      extra     |-> IF Truthy(session.context.userName)
                    THEN << <<"User's name", session.context.userName>> >>
                    ELSE IF Truthy(session.context.topic)
                    THEN << <<"Current topic", session.context.topic>> >>
                    ELSE << >> ]

\* getConversationHistory: the returned list (the store is touched by getSession)
getConversationHistory(S, callSid, t) ==
    LET session == getSession(S, callSid, t)[callSid]
    IN  <<[role |-> "system", content |-> getSystemPrompt(session)]>>
            \o [i \in 1 .. Len(session.messages) |->
                    [role |-> session.messages[i].role,
                     content |-> session.messages[i].content]]

\* an assignment that replaces the target by the updates
ObjectReplace(target, updates) == updates

\* Object.assign(target, updates) on records given as functions of their keys
ObjectAssign(target, updates) ==
    [k \in DOMAIN target \cup DOMAIN updates |->
        IF k \in DOMAIN updates THEN updates[k] ELSE target[k]]

updateContext(S, callSid, updates, t) ==
    LET S1 == getSession(S, callSid, t)
    IN  [S1 EXCEPT ![callSid].context = ObjectAssign(@, updates),
                   ![callSid].lastActivity = t]

\* (currentAvg * (totalMessages - 1) + responseTime) / totalMessages
RunningAverage(currentAvg, totalMessages, responseTime) ==
    DivInt(AddInt(MulInt(currentAvg, totalMessages - 1), responseTime), totalMessages)

recordResponseTime(S, callSid, responseTime, t) ==
    LET S1 == getSession(S, callSid, t)
    IN  [S1 EXCEPT ![callSid].metadata.averageResponseTime =
                       RunningAverage(S1[callSid].metadata.averageResponseTime,
                                      S1[callSid].metadata.totalMessages,
                                      responseTime)]

\* recordError counting the error on every stored session
recordErrorAll(S, callSid, t) ==
    LET S1 == getSession(S, callSid, t)
    IN  [c \in DOMAIN S1 |->
            IF S1[c] = NoSession THEN NoSession
            ELSE [S1[c] EXCEPT !.metadata.errors = @ + 1]]

recordError(S, callSid, t) ==
    LET S1 == getSession(S, callSid, t)
    IN  [S1 EXCEPT ![callSid].metadata.errors = @ + 1]

\* endSession emptying the whole store
endSessionClear(S, callSid) == [c \in DOMAIN S |-> NoSession]

endSession(S, callSid) ==
    IF S[callSid] # NoSession THEN [S EXCEPT ![callSid] = NoSession] ELSE S

\* the test of the sweep taking a session touched exactly an hour ago
IsOldInclusive(session, t) == session.lastActivity <= t - OneHour

\* the test of the sweep: session.lastActivity < oneHourAgo
IsOld(session, t) == session.lastActivity < t - OneHour

\* a sweep that refreshes the sessions it keeps
cleanupOldSessionsTouching(S, t) ==
    [c \in DOMAIN S |->
        IF S[c] = NoSession THEN NoSession
        ELSE IF IsOld(S[c], t) THEN NoSession
        ELSE [S[c] EXCEPT !.lastActivity = t]]

cleanupOldSessions(S, t) ==
    [c \in DOMAIN S |->
        IF S[c] # NoSession /\ IsOld(S[c], t) THEN NoSession ELSE S[c]]

\* Math.round of a rational; Infinity and NaN are returned as they are
MathRound(x) ==
    IF IsFinite(x) THEN Rat((2 * x.num + x.den) \div (2 * x.den), 1) ELSE x

\* getSessionStats measuring the duration from the last activity
getSessionStatsSinceActivity(S, callSid, t) ==
    IF S[callSid] = NoSession
    THEN Null
    ELSE [ callSid             |-> callSid,
           duration            |-> t - S[callSid].lastActivity,
           totalMessages       |-> S[callSid].metadata.totalMessages,
           averageResponseTime |-> MathRound(S[callSid].metadata.averageResponseTime),
           errors              |-> S[callSid].metadata.errors,
           lastActivity        |-> S[callSid].lastActivity ]

getSessionStats(S, callSid, t) ==
    IF S[callSid] = NoSession
    THEN Null
    ELSE [ callSid             |-> callSid,
           duration            |-> t - S[callSid].startTime,
           totalMessages       |-> S[callSid].metadata.totalMessages,
           averageResponseTime |-> MathRound(S[callSid].metadata.averageResponseTime),
           errors              |-> S[callSid].metadata.errors,
           lastActivity        |-> S[callSid].lastActivity ]

\* Array.from(this.sessions.keys()).map(getSessionStats), as the set of the
\* summaries (the keys are distinct)
getActiveSessions(S, t) ==
    {getSessionStats(S, c, t) : c \in {k \in DOMAIN S : S[k] # NoSession}}

(* ------------------------------- texts --------------------------------- *)

\* A text is a pair <<words, n>>: a fixed string of the program (n = 0), or
\* the n-th of a family of distinct texts supplied from outside.
Text(words) == <<words, 0>>

UndefinedText == Text(Undefined)

EmptyText == Text("")

\* the utterance the speech recogniser reports in request r
Utterance(r) == <<"utterance", r>>

\* the text the completion service returns in request r
Reply(r) == <<"reply", r>>

\* a test for undefined alone, which lets the empty string through
FalsyUndefinedOnly(text) == text = UndefinedText

\* !x for a text
Falsy(text) == text \in {UndefinedText, EmptyText}

FallbackReply ==
    Text("I'm sorry, I'm having trouble processing that right now. Could you try asking in a different way?")

TroubleUnderstanding == Text("I'm sorry, I had trouble understanding. Could you try again?")

(* ------------------------------- TwiML --------------------------------- *)

ProcessSpeechUrl == "https://web-production-cb494.up.railway.app/webhook/process-speech"

VoiceUrl == "https://web-production-cb494.up.railway.app/webhook/voice"

Say(text) == [verb |-> "Say", arg |-> text]

Gather(action) == [verb |-> "Gather", arg |-> Text(action)]

Play(url) == [verb |-> "Play", arg |-> url]

Redirect(url) == [verb |-> "Redirect", arg |-> Text(url)]

Hangup == [verb |-> "Hangup", arg |-> Text("")]

generateGreeting ==
    << Say(Text("Hello! I'm your AI assistant. Please speak after the tone, and I'll respond to you.")),
       Gather(ProcessSpeechUrl),
       Say(Text("I didn't hear anything. Please try speaking again.")),
       Redirect(VoiceUrl) >>

\* generateAudioResponse ending the call when the caller stays silent
generateAudioResponseHangup(audioUrl) ==
    << Play(audioUrl),
       Gather(ProcessSpeechUrl),
       Say(Text("I didn't hear anything. Please speak again or say goodbye if you'd like to end the call.")),
       Hangup >>

generateAudioResponse(audioUrl) ==
    << Play(audioUrl),
       Gather(ProcessSpeechUrl),
       Say(Text("I didn't hear anything. Please speak again or say goodbye if you'd like to end the call.")),
       Redirect(ProcessSpeechUrl) >>

generateContinueConversation ==
    << Gather(ProcessSpeechUrl),
       Say(Text("I didn't hear a response. Thank you for calling!")),
       Hangup >>

generateError(message) == << Say(message), Hangup >>

\* generateTextResponse without the gathering of the next utterance
generateTextResponseNoGather(text) == << Say(text), Hangup >>

generateTextResponse(text) ==
    << Say(text),
       Gather("/webhook/process-speech"),
       Say(Text("Is there anything else I can help you with?")),
       Redirect("/webhook/process-speech") >>

\* the audio file's URL: the call id, the message index and the time in its name
AudioUrl(callSid, messageIndex, t) == <<callSid, messageIndex, t>>

(* --------------------------- downstream services ------------------------ *)

\* analyzeConversation's two fallback returns
DefaultAnalysis ==
    [userName |-> Null, topic |-> "general", mood |-> "neutral",
     intent |-> "conversation", shouldEndCall |-> JsFalse]

\* the analysis of generatePhoneResponse's fallback return
FallbackAnalysis ==
    [userName |-> Null, topic |-> "error", mood |-> "neutral",
     intent |-> "retry", shouldEndCall |-> JsFalse]

\* JSON objects the analyzer may answer with: one with all keys, one with two
\* keys only and a mood outside the three named ones
ParsedAnalyses ==
    { [userName |-> "Ann", topic |-> "weather", mood |-> "positive",
       intent |-> "chat", shouldEndCall |-> JsTrue],
      [topic |-> "billing", mood |-> "angry"] }

\* what the analysis request can end in: a request error, a text that is not
\* JSON, the JSON value null, a JSON object
AnalysisOutcomes ==
    { [kind |-> "error", value |-> DefaultAnalysis],
      [kind |-> "unparseable", value |-> DefaultAnalysis],
      [kind |-> "null", value |-> DefaultAnalysis] }
    \cup { [kind |-> "object", value |-> a] : a \in ParsedAnalyses }

\* what the synthesis can end in: audio stored, the text-to-speech request
\* failed, writing the audio file failed
SynthesisOutcomes == {"ok", "ttsFailed", "saveFailed"}

\* JSON.parse of the text "null"
JsonNull == [null |-> TRUE]

\* how many of the last messages analyzeConversation sends: messages.slice(-5)
AnalysisWindow == 5

\* the system message analyzeConversation puts first
AnalysisPrompt ==
    [role |-> "system",
     content |-> Text("Analyze this conversation and extract key information in JSON format")]

\* analyzeConversation's request: [analysisPrompt, ...messages.slice(-5)]
analysisMessages(messages) == <<AnalysisPrompt>> \o SliceLast(messages, AnalysisWindow)

\* analyzeConversation returning nothing to merge when its request fails
analyzeConversationNoDefault(outcome) ==
    IF outcome.kind = "object" THEN outcome.value ELSE JsonNull

\* analyzeConversation: what it returns for each end of its request
analyzeConversation(outcome) ==
    IF outcome.kind = "object" THEN outcome.value
    ELSE IF outcome.kind = "null" THEN JsonNull
    ELSE DefaultAnalysis

\* generatePhoneResponse's catch block, entered when the completion request
\* throws: it logs userInput.substring(0, 100) and returns the fallback.  With
\* userInput undefined the log statement throws a TypeError out of the catch.
PhoneResponseFallback(userInput) ==
    IF userInput = UndefinedText
    THEN [threw |-> TRUE, response |-> UndefinedText, analysis |-> JsonNull]
    ELSE [threw |-> FALSE, response |-> FallbackReply, analysis |-> FallbackAnalysis]

\* processSpeech passing the utterance as the second argument
UserInputPassed(SpeechResult) == SpeechResult

\* the second argument of generatePhoneResponse in processSpeech's call
\* generatePhoneResponse(conversationHistory): there is none
UserInputArgument(SpeechResult) == UndefinedText

(* --------------------------- text for the phone ------------------------ *)

\* A text is the sequence of its characters.

\* the characters of the texts optimizeTextForPhone is applied to
Chars == {"M", "r", "e", "t", "c", ".", "!", " "}

Texts == UNION {[1 .. n -> Chars] : n \in 0 .. MaxTextLen}

\* the characters \w of the letters that occur: \b lies between one of them
\* and a character that is none, or an end of the text
WordChars ==
    {"D", "M", "r", "s", "e", "t", "c", "i", "g", "o", "a", "h", "f", "x", "m", "p", "l", "u"}

RECURSIVE CollapseRuns(_, _)
\* text.replace(/[ch]{2,}/g, ch)
CollapseRuns(text, ch) ==
    IF Len(text) < 2 THEN text
    ELSE IF text[1] = ch /\ text[2] = ch THEN CollapseRuns(Tail(text), ch)
    ELSE <<text[1]>> \o CollapseRuns(Tail(text), ch)

\* the pattern matches the text at position i
MatchesAt(text, i, pattern) ==
    /\ i + Len(pattern) - 1 <= Len(text)
    /\ SubSeq(text, i, i + Len(pattern) - 1) = pattern

\* \b before the letter at position i
WordStartsAt(text, i) == i = 1 \/ text[i - 1] \notin WordChars

RECURSIVE ReplaceFrom(_, _, _, _, _)
\* text.replace(/pattern/g, replacement) from position i on, the pattern
\* being a literal that starts with \b when `boundary` is set
ReplaceFrom(text, i, pattern, replacement, boundary) ==
    IF i > Len(text) THEN << >>
    ELSE IF MatchesAt(text, i, pattern) /\ (boundary => WordStartsAt(text, i))
    THEN replacement \o ReplaceFrom(text, i + Len(pattern), pattern, replacement, boundary)
    ELSE <<text[i]>> \o ReplaceFrom(text, i + 1, pattern, replacement, boundary)

\* the first three replacements: runs of ., of ! and of ?
collapsePunctuation(text) ==
    CollapseRuns(CollapseRuns(CollapseRuns(text, "."), "!"), "?")

\* the abbreviations and what replaces them, in the order of the code
Abbreviations ==
    << [abbr |-> <<"D", "r", ".">>, full |-> <<"D", "o", "c", "t", "o", "r">>],
       [abbr |-> <<"M", "r", ".">>, full |-> <<"M", "i", "s", "t", "e", "r">>],
       [abbr |-> <<"M", "r", "s", ".">>, full |-> <<"M", "i", "s", "s", "u", "s">>],
       [abbr |-> <<"M", "s", ".">>, full |-> <<"M", "i", "s", "s">>],
       [abbr |-> <<"e", "t", "c", ".">>, full |-> <<"e", "t", "c", "e", "t", "e", "r", "a">>],
       [abbr |-> <<"i", ".", "e", ".">>, full |-> <<"t", "h", "a", "t", " ", "i", "s">>],
       [abbr |-> <<"e", ".", "g", ".">>,
        full |-> <<"f", "o", "r", " ", "e", "x", "a", "m", "p", "l", "e">>] >>

RECURSIVE ExpandFrom(_, _)
\* the replacements of the abbreviations k, k + 1, ... one after the other
ExpandFrom(text, k) ==
    IF k > Len(Abbreviations) THEN text
    ELSE ExpandFrom(ReplaceFrom(text, 1, Abbreviations[k].abbr, Abbreviations[k].full, TRUE),
                    k + 1)

expandAbbreviations(text) == ExpandFrom(text, 1)

\* .replace(/\. /g, '. ').replace(/\! /g, '! ').replace(/\? /g, '? ')
addPauses(text) ==
    ReplaceFrom(ReplaceFrom(ReplaceFrom(text, 1, <<".", " ">>, <<".", " ">>, FALSE),
                            1, <<"!", " ">>, <<"!", " ">>, FALSE),
                1, <<"?", " ">>, <<"?", " ">>, FALSE)

RECURSIVE TrimStart(_)
TrimStart(text) ==
    IF text # << >> /\ text[1] = " " THEN TrimStart(Tail(text)) ELSE text

RECURSIVE TrimEnd(_)
TrimEnd(text) ==
    IF text # << >> /\ text[Len(text)] = " "
    THEN TrimEnd(SubSeq(text, 1, Len(text) - 1))
    ELSE text

\* text.trim()
Trim(text) == TrimEnd(TrimStart(text))

\* .trim().replace(/([^.!?])$/, '$1.')
ensureSentenceEnding(text) ==
    LET trimmed == Trim(text)
    IN  IF trimmed # << >> /\ trimmed[Len(trimmed)] \notin {".", "!", "?"}
        THEN Append(trimmed, ".")
        ELSE trimmed

optimizeTextForPhone(text) ==
    ensureSentenceEnding(addPauses(expandAbbreviations(collapsePunctuation(text))))

(* ------------------------------- state --------------------------------- *)

\* a speech request that has not arrived, and the locals of processSpeech
NewRequest ==
    [ pc           |-> "new",
      CallSid      |-> "",
      SpeechResult |-> UndefinedText,
      startTime    |-> 0,
      messages     |-> << >>,
      analysed     |-> << >>,
      response     |-> UndefinedText,
      messageIndex |-> 0,
      calls        |-> << >> ]

\* a request whose handler has returned: its locals are dropped
Finished(req) == [NewRequest EXCEPT !.pc = "done"]

InFlight == {r \in Reqs : reqs[r].pc \notin {"new", "done"}}

\* an event: the path of an HTTP request (or the timer), its CallSid,
\* SpeechResult and CallStatus fields, and for a speech request its number
Request(path, r, callSid, sr, st) ==
    [path |-> path, id |-> r, CallSid |-> callSid, SpeechResult |-> sr, CallStatus |-> st]

VoiceRequest(c) == Request("/webhook/voice", 0, c, UndefinedText, "")

SpeechRequest(r) ==
    Request("/webhook/process-speech", r, reqs[r].CallSid, reqs[r].SpeechResult, "")

StatusRequest(c, st) == Request("/webhook/status", 0, c, UndefinedText, st)

StatsRequest == Request("/api/conversations", 0, "", UndefinedText, "")

TimerEvent == Request("setInterval", 0, "", UndefinedText, "")

NoEvent == Request("", 0, "", UndefinedText, "")

\* What a step puts out: the HTTP response it sends (status 0: none) and the
\* event it answers, the downstream requests the handler made, and the
\* branch it ended in as its log line tells.
Sent(to, status, body, calls, outcome) ==
    [to |-> to, status |-> status, body |-> body, calls |-> calls, outcome |-> outcome]

\* the step sent no HTTP response and ended no handler
NoResponse == Sent(NoEvent, 0, << >>, << >>, "")

\* generatePhoneSpeech is not running
NoSpeech == [pc |-> "idle", text |-> << >>, phoneOptimizedText |-> << >>]

Init ==
    /\ sessions = [c \in CallSids |-> NoSession]
    /\ now = 0
    /\ reqs = [r \in Reqs |-> NewRequest]
    /\ response = NoResponse
    /\ recorded = [c \in CallSids |-> << >>]
    /\ phoneSpeech = NoSpeech

\* the response times recorded on the session object now stored for each id:
\* a session that is absent before or after the step starts again from none
Track(S, S2, rec) ==
    [c \in CallSids |-> IF S[c] = NoSession \/ S2[c] = NoSession THEN << >> ELSE rec[c]]

(* ------------------------------ handlers ------------------------------- *)

\* POST /webhook/voice
HandleIncomingCall(c) ==
    /\ sessions' = createSession(sessions, c, now)
    /\ response' = Sent(VoiceRequest(c), 200, generateGreeting, << >>, "session_created")
    /\ recorded' = [recorded EXCEPT ![c] = << >>]
    /\ UNCHANGED <<now, reqs, phoneSpeech>>

\* a handler that looks the session up before it tests the speech result
ProcessSpeechTouching(r, c, sr) ==
    /\ reqs[r].pc = "new"
    /\ \A q \in 1 .. r - 1 : reqs[q].pc # "new"
    /\ IF Falsy(sr)
       THEN /\ reqs' = [reqs EXCEPT ![r] = Finished(reqs[r])]
            /\ response' = Sent(Request("/webhook/process-speech", r, c, sr, ""), 200,
                                generateContinueConversation, << >>, "noSpeech")
            /\ sessions' = getSession(sessions, c, now)
            /\ recorded' = Track(sessions, sessions', recorded)
       ELSE LET S1      == addMessage(sessions, c, "user", sr, now)
                history == getConversationHistory(S1, c, now)
                S2      == getSession(S1, c, now)
                input   == UserInputArgument(sr)
            IN  /\ sessions' = S2
                /\ recorded' = Track(sessions, S2, recorded)
                /\ reqs' = [reqs EXCEPT ![r] =
                              [NewRequest EXCEPT
                                 !.pc = "completion", !.CallSid = c, !.SpeechResult = sr,
                                 !.startTime = now,
                                 !.messages =
                                     Append(history, [role |-> "user", content |-> input]),
                                 !.calls = <<"completion">>]]
                /\ response' = NoResponse
    /\ UNCHANGED <<now, phoneSpeech>>

\* POST /webhook/process-speech: the whole handler when there is no speech
\* result, and otherwise the handler up to the await of the completion request
ProcessSpeech(r, c, sr) ==
    /\ reqs[r].pc = "new"
    /\ \A q \in 1 .. r - 1 : reqs[q].pc # "new"
    /\ IF Falsy(sr)
       THEN /\ reqs' = [reqs EXCEPT ![r] = Finished(reqs[r])]
            /\ response' = Sent(Request("/webhook/process-speech", r, c, sr, ""), 200,
                                generateContinueConversation, << >>, "noSpeech")
            /\ UNCHANGED <<sessions, recorded>>
       ELSE LET S1      == addMessage(sessions, c, "user", sr, now)
                history == getConversationHistory(S1, c, now)
                S2      == getSession(S1, c, now)
                input   == UserInputArgument(sr)
            IN  /\ sessions' = S2
                /\ recorded' = Track(sessions, S2, recorded)
                /\ reqs' = [reqs EXCEPT ![r] =
                              [NewRequest EXCEPT
                                 !.pc = "completion", !.CallSid = c, !.SpeechResult = sr,
                                 !.startTime = now,
                                 !.messages =
                                     Append(history, [role |-> "user", content |-> input]),
                                 !.calls = <<"completion">>]]
                /\ response' = NoResponse
    /\ UNCHANGED <<now, phoneSpeech>>

\* a catch block that records the error and sends nothing
ProcessSpeechCatchSilent(r) ==
    LET c  == reqs[r].CallSid
        S1 == recordError(sessions, c, now)
    IN  /\ sessions' = S1
        /\ recorded' = Track(sessions, S1, recorded)
        /\ reqs' = [reqs EXCEPT ![r] = Finished(reqs[r])]
        /\ response' = NoResponse

\* processSpeech's catch block
ProcessSpeechCatch(r) ==
    LET c  == reqs[r].CallSid
        S1 == recordError(sessions, c, now)
    IN  /\ sessions' = S1
        /\ recorded' = Track(sessions, S1, recorded)
        /\ reqs' = [reqs EXCEPT ![r] = Finished(reqs[r])]
        /\ response' = Sent(SpeechRequest(r), 200, generateError(TroubleUnderstanding),
                            reqs[r].calls, "exception")

\* a handler that ends the session when the analysis says the call should end
StoreAfterResultEnding(S, c, aiResult, t) ==
    LET S1 == IF aiResult.analysis # JsonNull
              THEN updateContext(S, c, aiResult.analysis, t)
              ELSE S
        S2 == addMessage(S1, c, "assistant", aiResult.response, t)
        S3 == IF /\ aiResult.analysis # JsonNull
                 /\ "shouldEndCall" \in DOMAIN aiResult.analysis
                 /\ aiResult.analysis.shouldEndCall = JsTrue
              THEN endSession(S2, c)
              ELSE S2
    IN  getSession(S3, c, t)

\* what processSpeech does to the store between the return of
\* generatePhoneResponse and the text-to-speech request: the context update,
\* the assistant message, the read of the session for the message index
StoreAfterResult(S, c, aiResult, t) ==
    LET S1 == IF aiResult.analysis # JsonNull
              THEN updateContext(S, c, aiResult.analysis, t)
              ELSE S
        S2 == addMessage(S1, c, "assistant", aiResult.response, t)
    IN  getSession(S2, c, t)

\* processSpeech from the return of generatePhoneResponse to the await of the
\* text-to-speech request; `log` is what generatePhoneResponse logged
ProcessSpeechResult(r, aiResult, log) ==
    LET c  == reqs[r].CallSid
        S3 == StoreAfterResult(sessions, c, aiResult, now)
    IN  /\ sessions' = S3
        /\ recorded' = Track(sessions, S3, recorded)
        /\ reqs' = [reqs EXCEPT ![r].pc = "synthesis",
                                ![r].response = aiResult.response,
                                ![r].messageIndex = S3[c].metadata.totalMessages,
                                ![r].calls = Append(@, "synthesis")]
        /\ response' = Sent(NoEvent, 0, << >>, << >>, log)

\* the completion request of generatePhoneResponse succeeds: the analysis
\* request is sent
CompletionSucceeds(r) ==
    /\ reqs[r].pc = "completion"
    /\ reqs' = [reqs EXCEPT ![r].pc = "analysis",
                            ![r].response = Reply(r),
                            ![r].analysed = analysisMessages(reqs[r].messages),
                            ![r].calls = Append(@, "analysis")]
    /\ response' = NoResponse
    /\ UNCHANGED <<sessions, now, recorded, phoneSpeech>>

\* the completion request fails: generateResponse throws into
\* generatePhoneResponse's catch block
CompletionFails(r) ==
    /\ reqs[r].pc = "completion"
    /\ LET input    == reqs[r].messages[Len(reqs[r].messages)].content
           fallback == PhoneResponseFallback(input)
       IN  IF fallback.threw
           THEN ProcessSpeechCatch(r)
           ELSE ProcessSpeechResult(r, [response |-> fallback.response,
                                        analysis |-> fallback.analysis],
                                    "fallback")
    /\ UNCHANGED <<now, phoneSpeech>>

\* the analysis request ends: generatePhoneResponse returns
AnalysisReturns(r, outcome) ==
    /\ reqs[r].pc = "analysis"
    /\ ProcessSpeechResult(r, [response |-> reqs[r].response,
                               analysis |-> analyzeConversation(outcome)],
                           outcome.kind)
    /\ UNCHANGED <<now, phoneSpeech>>

\* a failure to store the audio taken for a success
RenderSpeechSaveIgnored(outcome, audioUrl, text) ==
    IF outcome \in {"ok", "saveFailed"}
    THEN generateAudioResponse(audioUrl)
    ELSE generateTextResponse(text)

\* processSpeech's try around generatePhoneSpeech: the audio response when it
\* returns, the text response when it throws
RenderSpeech(outcome, audioUrl, text) ==
    IF outcome = "ok" THEN generateAudioResponse(audioUrl) ELSE generateTextResponse(text)

\* generatePhoneSpeech returns or throws: the response is rendered, the
\* response time recorded and the response sent
SynthesisReturns(r, outcome) ==
    /\ reqs[r].pc = "synthesis"
    /\ LET c     == reqs[r].CallSid
           twiml == RenderSpeech(outcome, AudioUrl(c, reqs[r].messageIndex, now),
                                 reqs[r].response)
           S1    == recordResponseTime(sessions, c, now - reqs[r].startTime, now)
       IN  /\ sessions' = S1
           /\ recorded' = [Track(sessions, S1, recorded) EXCEPT
                              ![c] = Append(@, now - reqs[r].startTime)]
           /\ reqs' = [reqs EXCEPT ![r] = Finished(reqs[r])]
           /\ response' = Sent(SpeechRequest(r), 200, twiml, reqs[r].calls, outcome)
    /\ UNCHANGED <<now, phoneSpeech>>

\* the statuses that end the session, without no-answer
TerminalStatusesAnswered == {"completed", "failed", "busy"}

\* the statuses on which handleCallStatus ends the session
TerminalStatuses == {"completed", "failed", "busy", "no-answer"}

\* the values of CallStatus the status callback is sent with
CallStatuses == {"completed", "failed", "busy", "no-answer", "ringing", "in-progress"}

\* POST /webhook/status
HandleCallStatus(c, CallStatus) ==
    /\ sessions' = IF CallStatus \in TerminalStatuses
                   THEN endSession(sessions, c)
                   ELSE sessions
    /\ recorded' = Track(sessions, sessions', recorded)
    /\ response' = Sent(StatusRequest(c, CallStatus), 200, << >>, << >>,
                        IF sessions' # sessions THEN "session_ended" ELSE "")
    /\ UNCHANGED <<now, reqs, phoneSpeech>>

\* the 30-minute timer of the constructor; cleanedCount is what it logs
CleanupTimer ==
    /\ sessions' = cleanupOldSessions(sessions, now)
    /\ recorded' = Track(sessions, sessions', recorded)
    /\ LET cleanedCount == Cardinality({c \in CallSids : sessions'[c] # sessions[c]})
       IN  response' = Sent(TimerEvent, 0, <<cleanedCount>>, << >>, "cleanup")
    /\ UNCHANGED <<now, reqs, phoneSpeech>>

\* GET /api/conversations
GetConversationStats ==
    /\ LET activeSessions == getActiveSessions(sessions, now)
       IN  response' = Sent(StatsRequest, 200,
                            [activeSessions |-> Cardinality(activeSessions),
                             sessions |-> activeSessions], << >>, "")
    /\ UNCHANGED <<sessions, now, reqs, recorded, phoneSpeech>>

\* the clock advances
Tick ==
    /\ now < MaxTime
    /\ now' = now + 1
    /\ response' = NoResponse
    /\ UNCHANGED <<sessions, reqs, recorded, phoneSpeech>>

\* The events of the calls `ids` with `n` speech requests, at most `k` of
\* them being processed at a time.
Events(ids, k, n) ==
    \/ \E c \in ids : HandleIncomingCall(c)
    \/ \E r \in 1 .. n, c \in ids :
         \E sr \in {UndefinedText, EmptyText, Utterance(r)} :
           /\ Cardinality(InFlight) < k
           /\ ProcessSpeech(r, c, sr)
    \/ \E r \in Reqs : CompletionSucceeds(r)
    \/ \E r \in Reqs : CompletionFails(r)
    \/ \E r \in Reqs, o \in AnalysisOutcomes : AnalysisReturns(r, o)
    \/ \E r \in Reqs, o \in SynthesisOutcomes : SynthesisReturns(r, o)
    \/ \E c \in ids, st \in CallStatuses : HandleCallStatus(c, st)
    \/ CleanupTimer
    \/ GetConversationStats

\* One call whose speech events the telephony provider delivers one at a
\* time; call-start and status events, the sweep and the statistics query
\* arrive at any time, also while a turn awaits a downstream service.
Next == Events({"c1"}, 1, MaxSeqTurns) \/ Tick

Spec == Init /\ [][Next]_vars

\* One call whose speech events overlap; the clock stands still.
NextOverlap == Events({"c1"}, MaxInFlight, MaxTurns)

SpecOverlap == Init /\ [][NextOverlap]_vars

\* generatePhoneSpeech called with a text
InitSpeech ==
    /\ sessions = [c \in CallSids |-> NoSession]
    /\ now = 0
    /\ reqs = [r \in Reqs |-> NewRequest]
    /\ response = NoResponse
    /\ recorded = [c \in CallSids |-> << >>]
    /\ phoneSpeech \in {[pc |-> "called", text |-> t, phoneOptimizedText |-> << >>] :
                            t \in Texts}

\* generatePhoneSpeech up to its text-to-speech request
GeneratePhoneSpeech ==
    /\ phoneSpeech.pc = "called"
    /\ phoneSpeech' = [phoneSpeech EXCEPT
                          !.pc = "textToSpeech",
                          !.phoneOptimizedText = optimizeTextForPhone(phoneSpeech.text)]
    /\ UNCHANGED <<sessions, now, reqs, response, recorded>>

\* generatePhoneSpeech applied to every text of up to MaxTextLen characters
SpecSpeech == InitSpeech /\ [][GeneratePhoneSpeech]_vars

\* Two calls at the same time, their speech events overlapping; the clock
\* stands still.
NextCalls == Events(CallSids, MaxInFlight, MaxSeqTurns)

SpecCalls == Init /\ [][NextCalls]_vars

\* Spec with the requests to the completion service answered in the end:
\* each of them ends with a result or an error.  The text-to-speech request
\* is an axios.post without a timeout, which need not end.
SpecLive ==
    /\ Init
    /\ [][Next]_vars
    /\ \A r \in Reqs :
          /\ WF_vars(CompletionSucceeds(r) \/ CompletionFails(r))
          /\ WF_vars(\E o \in AnalysisOutcomes : AnalysisReturns(r, o))

(* ------------------------------- claims -------------------------------- *)

MessagesOf(S, c) == IF S[c] = NoSession THEN << >> ELSE S[c].messages

ErrorsOf(S, c) == IF S[c] = NoSession THEN 0 ELSE S[c].metadata.errors

RECURSIVE SumSeq(_)
SumSeq(seq) == IF seq = << >> THEN 0 ELSE seq[1] + SumSeq(Tail(seq))

\* the last n elements of seq, all of it when it has fewer
LastN(seq, n) ==
    [i \in 1 .. (IF Len(seq) < n THEN Len(seq) ELSE n) |->
        seq[i + (IF Len(seq) < n THEN 0 ELSE Len(seq) - n)]]

\* the speech request r is received in this step
Received(r) == reqs[r].pc = "new" /\ reqs'[r].pc # "new"

\* the SpeechResult of the request r received in this step
ReceivedSpeech(r) ==
    IF reqs'[r].pc = "done" THEN response'.to.SpeechResult ELSE reqs'[r].SpeechResult

\* C1: the history of every session never has more than
\* maxConversationLength messages, also when the turns of two speech
\* requests for the same call overlap.
C1_HistoryBounded ==
    \A c \in CallSids :
        sessions[c] # NoSession => Len(sessions[c].messages) <= maxConversationLength

\* more messages were appended than the window holds, while two turns overlap
C1_Witness ==
    /\ sessions["c1"] # NoSession
    /\ sessions["c1"].metadata.totalMessages > maxConversationLength
    /\ Len(sessions["c1"].messages) = maxConversationLength
    /\ Cardinality(InFlight) >= 2

\* C2: after k turns completed on a session that holds all their 2k
\* messages, averageResponseTime is the arithmetic mean of the k recorded
\* response times.
C2_AverageIsMean ==
    \A c \in CallSids :
        ( /\ sessions[c] # NoSession
          /\ Len(recorded[c]) > 0
          /\ sessions[c].metadata.totalMessages = 2 * Len(recorded[c]) )
        => LET avg == sessions[c].metadata.averageResponseTime
           IN  /\ IsFinite(avg)
               /\ avg.num * Len(recorded[c]) = SumSeq(recorded[c]) * avg.den

\* C3: a speech request without a speech result (missing or empty) ends in
\* the same step with the listen-again response, leaves every session as it
\* was and makes no request to the completion, analysis or synthesis service.
C3_NoSpeechIsNoOp ==
    [][ \A r \in Reqs :
          (Received(r) /\ ReceivedSpeech(r) \in {UndefinedText, EmptyText})
          => /\ reqs'[r].pc = "done"
             /\ response'.to.id = r
             /\ response'.body = generateContinueConversation
             /\ response'.calls = << >>
             /\ sessions' = sessions
             /\ \A q \in Reqs \ {r} : reqs'[q] = reqs[q] ]_vars

\* an empty speech result was answered while the call has a history
C3_Witness ==
    /\ response.outcome = "noSpeech"
    /\ response.to.SpeechResult = EmptyText
    /\ sessions["c1"] # NoSession
    /\ Len(sessions["c1"].messages) > 0

\* the TwiML document has a verb of this name
HasVerb(twiml, verb) == \E i \in 1 .. Len(twiml) : twiml[i].verb = verb

\* the TwiML document speaks this text
Speaks(twiml, text) == \E i \in 1 .. Len(twiml) : twiml[i] = [verb |-> "Say", arg |-> text]

\* the completion request of the turn r fails in this step
CompletionFailed(r) ==
    reqs[r].pc = "completion" /\ reqs'[r].pc \notin {"completion", "analysis"}

\* the synthesis of the turn r fails in this step
SynthesisFailed(r) ==
    /\ reqs[r].pc = "synthesis"
    /\ reqs'[r].pc = "done"
    /\ response'.outcome \in {"ttsFailed", "saveFailed"}

\* C4: in the step in which the completion request of a turn fails, the
\* turn is answered with a response that speaks the fixed apology of
\* processSpeech, errors of the call's session goes up by exactly 1 and no
\* message is added to its history.
C4_CompletionFailure ==
    [][ \A r \in Reqs :
          CompletionFailed(r)
          => LET c == reqs[r].CallSid
             IN  /\ reqs'[r].pc = "done"
                 /\ response'.to.id = r
                 /\ Speaks(response'.body,
                           Text("I'm sorry, I had trouble understanding. Could you try again?"))
                 /\ ErrorsOf(sessions', c) = ErrorsOf(sessions, c) + 1
                 /\ MessagesOf(sessions', c) = MessagesOf(sessions, c) ]_vars

\* a turn whose completion failed was answered: one error, the user turn alone
C4_Witness ==
    /\ response.outcome = "exception"
    /\ response.calls = <<"completion">>
    /\ sessions["c1"] # NoSession
    /\ sessions["c1"].metadata.errors = 1
    /\ Len(sessions["c1"].messages) = 1
    /\ sessions["c1"].messages[1].role = "user"

\* C5: a completion failure or a synthesis failure is answered with a
\* response that gathers the next utterance and does not hang up, and after
\* the analysis request, whatever its end, the turn goes on to the synthesis.
C5_FailuresKeepCallAlive ==
    [][ \A r \in Reqs :
          /\ (CompletionFailed(r) \/ SynthesisFailed(r))
             => /\ response'.to.id = r
                /\ HasVerb(response'.body, "Gather")
                /\ ~HasVerb(response'.body, "Hangup")
          /\ (reqs[r].pc = "analysis" /\ reqs'[r].pc # "analysis")
             => reqs'[r].pc = "synthesis" ]_vars

\* C6: in the step in which the synthesis of a turn fails (the text-to-speech
\* request or the storing of the audio), the response speaks the turn's
\* response text and gathers, plays no audio, and errors of the call's
\* session is what it was.
C6_SynthesisFailure ==
    [][ \A r \in Reqs :
          SynthesisFailed(r)
          => LET c == reqs[r].CallSid
             IN  /\ response'.to.id = r
                 /\ response'.body[1] = [verb |-> "Say", arg |-> reqs[r].response]
                 /\ HasVerb(response'.body, "Gather")
                 /\ ~HasVerb(response'.body, "Play")
                 /\ ~HasVerb(response'.body, "Hangup")
                 /\ ErrorsOf(sessions', c) = ErrorsOf(sessions, c) ]_vars

\* the audio of a completed turn could not be stored: the text was spoken
C6_Witness ==
    /\ response.outcome = "saveFailed"
    /\ response.calls = <<"completion", "analysis", "synthesis">>
    /\ response.body[1] = [verb |-> "Say", arg |-> Reply(response.to.id)]
    /\ sessions["c1"] # NoSession
    /\ sessions["c1"].metadata.errors = 0

\* the i-th pair of messages is the utterance of a request and its reply
IsExchange(messages, i) ==
    \E r \in Reqs :
        /\ messages[2 * i - 1] = [role |-> "user", content |-> <<"utterance", r>>]
        /\ messages[2 * i] = [role |-> "assistant", content |-> <<"reply", r>>]

\* a session on which k turns were completed one after the other and nothing
\* else was done (no turn in progress, no error, 2k messages added, 2k
\* within the window) holds the k exchanges, the oldest first
ExchangesInOrder(c) ==
    LET k == Len(recorded[c])
    IN  ( /\ sessions[c] # NoSession
          /\ InFlight = {}
          /\ sessions[c].metadata.errors = 0
          /\ sessions[c].metadata.totalMessages = 2 * k
          /\ 2 * k <= maxConversationLength )
        => /\ Len(sessions[c].messages) = 2 * k
           /\ \A i \in 1 .. k : IsExchange(sessions[c].messages, i)
           /\ \A i \in 1 .. k - 1 :
                 sessions[c].messages[2 * i - 1].content[2]
                     < sessions[c].messages[2 * i + 1].content[2]

\* what the steps of a call-start event and of a turn do to the history
TurnAppends(r) ==
    LET c      == IF reqs[r].pc = "new" THEN reqs'[r].CallSid ELSE reqs[r].CallSid
        before == MessagesOf(sessions, c)
        after  == MessagesOf(sessions', c)
    IN  /\ (reqs[r].pc = "new" /\ reqs'[r].pc = "completion")
           => after = LastN(Append(before, [role |-> "user",
                                            content |-> reqs'[r].SpeechResult]),
                            maxConversationLength)
        /\ (reqs[r].pc = "completion" /\ reqs'[r].pc = "analysis")
           => after = before
        /\ (reqs[r].pc = "analysis" /\ reqs'[r].pc # "analysis")
           => /\ reqs'[r].pc = "synthesis"
              /\ after = LastN(Append(before, [role |-> "assistant",
                                               content |-> <<"reply", r>>]),
                               maxConversationLength)
        /\ (reqs[r].pc = "synthesis" /\ reqs'[r].pc = "done")
           => /\ after = before
              /\ response'.to.id = r
              /\ response'.outcome = "ok"
                 => /\ response'.body[1].verb = "Play"
                    /\ HasVerb(response'.body, "Gather")

\* C7: the session a call-start event creates has an empty history; a turn
\* whose completion succeeds appends the utterance when it is received and
\* the returned text as an assistant message when the completion and the
\* analysis have ended, and nothing else; after k such turns one after the
\* other with 2k <= maxConversationLength the history is u1,a1,...,uk,ak;
\* when the synthesis succeeds too the response plays the audio.
C7_TurnsAppendInOrder ==
    /\ [](\A c \in CallSids : ExchangesInOrder(c))
    /\ [][ /\ response'.outcome = "session_created"
              => /\ sessions'[response'.to.CallSid] # NoSession
                 /\ sessions'[response'.to.CallSid].messages = << >>
           /\ \A r \in Reqs : TurnAppends(r) ]_vars

\* two turns were completed one after the other and the second was answered
\* with audio
C7_Witness ==
    /\ response.outcome = "ok"
    /\ response.to.id = 2
    /\ response.body[1].verb = "Play"
    /\ Len(recorded["c1"]) = 2
    /\ sessions["c1"] # NoSession
    /\ sessions["c1"].metadata.errors = 0
    /\ sessions["c1"].metadata.totalMessages = 4
    /\ Len(sessions["c1"].messages) = 4
    /\ sessions["c1"].messages[1] = [role |-> "user", content |-> <<"utterance", 1>>]
    /\ sessions["c1"].messages[4] = [role |-> "assistant", content |-> <<"reply", 2>>]

\* C8: a run of the sweep with the threshold of one hour removes every
\* session whose lastActivity is less than now - OneHour and leaves every
\* other session as it was, the sessions with lastActivity = now - OneHour
\* among them; it reports the number it removed.
C8_SweepRemovesOld ==
    [][ response'.to.path = "setInterval"
        => /\ \A c \in CallSids :
                 sessions'[c] = IF /\ sessions[c] # NoSession
                                   /\ sessions[c].lastActivity < now - 1
                                THEN NoSession
                                ELSE sessions[c]
           /\ response'.body =
                 << Cardinality({c \in CallSids : /\ sessions[c] # NoSession
                                                  /\ sessions[c].lastActivity < now - 1}) >> ]_vars

\* a sweep has removed the one session of the store
C8_Witness ==
    /\ response.to.path = "setInterval"
    /\ response.body = <<1>>
    /\ \A c \in CallSids : sessions[c] = NoSession

\* C9: a status event with one of the statuses completed, failed, busy and
\* no-answer leaves no session stored under its call id and every other
\* session as it was, a status event with the status ringing or in-progress
\* leaves the store as it was, and a statistics query lists one session for
\* each stored session and none for any other id.
C9_TerminalStatusEndsSession ==
    [][ /\ response'.to.path = "/webhook/status"
           => /\ response'.status = 200
              /\ response'.to.CallStatus \in {"completed", "failed", "busy", "no-answer"}
                 => /\ sessions'[response'.to.CallSid] = NoSession
                    /\ \A c \in CallSids \ {response'.to.CallSid} :
                          sessions'[c] = sessions[c]
              /\ response'.to.CallStatus \in {"ringing", "in-progress"}
                 => sessions' = sessions
        /\ response'.to.path = "/api/conversations"
           => /\ sessions' = sessions
              /\ response'.body.activeSessions =
                     Cardinality({c \in CallSids : sessions[c] # NoSession})
              /\ \A c \in CallSids :
                     sessions[c] # NoSession
                     <=> \E s \in response'.body.sessions : s.callSid = c ]_vars

\* the status completed has ended the session of a call that had a history
C9_Witness ==
    /\ response.outcome = "session_ended"
    /\ response.to.CallStatus = "completed"
    /\ response.to.CallSid = "c1"
    /\ sessions["c1"] = NoSession
    /\ \E r \in Reqs : reqs[r].pc = "done"

\* the session getSession creates
DefaultSession(c, t) ==
    [ callSid      |-> c,
      startTime    |-> t,
      lastActivity |-> t,
      messages     |-> << >>,
      context      |-> [userName |-> "<null>", topic |-> "<null>", mood |-> "neutral"],
      metadata     |-> [totalMessages |-> 0,
                        averageResponseTime |-> [num |-> 0, den |-> 1],
                        errors |-> 0] ]

\* what getSession is to return for the id c at the time t
Touched(S, c, t) ==
    IF S[c] = NoSession THEN DefaultSession(c, t) ELSE [S[c] EXCEPT !.lastActivity = t]

\* C10: in every state getSession gives, for every id, the stored session
\* with lastActivity set to now and nothing else changed, or a new stored
\* session with an empty history, the default context and zero metrics when
\* the id is unknown, and leaves the other sessions alone; the catch block
\* of processSpeech, which looks the session up with it, finds or creates
\* the session in this way and counts the error on it; and every step of a
\* turn that works on the store leaves a session stored for the call.
C10_GetSessionNeverFails ==
    /\ [](\A c \in CallSids :
             getSession(sessions, c, now) =
                 [sessions EXCEPT ![c] = Touched(sessions, c, now)])
    /\ [][ \A r \in Reqs :
              /\ (reqs[r].pc = "completion" /\ reqs'[r].pc = "done")
                 => sessions' =
                       [sessions EXCEPT ![reqs[r].CallSid] =
                           [Touched(sessions, reqs[r].CallSid, now)
                               EXCEPT !.metadata.errors = @ + 1]]
              /\ (reqs[r].pc = "new" /\ reqs'[r].pc = "completion")
                 => /\ sessions'[reqs'[r].CallSid] # NoSession
                    /\ sessions'[reqs'[r].CallSid].lastActivity = now'
              /\ (reqs[r].pc \in {"completion", "analysis", "synthesis"}
                     /\ reqs'[r].pc \in {"synthesis", "done"}
                     /\ reqs'[r].pc # reqs[r].pc)
                 => /\ sessions'[reqs[r].CallSid] # NoSession
                    /\ sessions'[reqs[r].CallSid].lastActivity = now' ]_vars

\* the catch block found no session for the call, whose session had been
\* ended during the turn, and one with the defaults was created for it
C10_Witness ==
    /\ response.outcome = "exception"
    /\ sessions["c1"] # NoSession
    /\ sessions["c1"].messages = << >>
    /\ sessions["c1"].metadata.totalMessages = 0
    /\ sessions["c1"].metadata.errors = 1
    /\ sessions["c1"].startTime = now
    /\ now > 0

\* C11: a call-start event leaves a session stored for its call id, and
\* when the id had a session before the event, the history, the context, the
\* metrics and the start time of that session are what they were.
C11_CallStartIdempotent ==
    [][ response'.to.path = "/webhook/voice"
        => LET c == response'.to.CallSid
           IN  /\ sessions'[c] # NoSession
               /\ sessions[c] # NoSession
                  => /\ sessions'[c].messages = sessions[c].messages
                     /\ sessions'[c].context = sessions[c].context
                     /\ sessions'[c].metadata = sessions[c].metadata
                     /\ sessions'[c].startTime = sessions[c].startTime ]_vars

\* C12: in every state, for every call id, endSession leaves the store as
\* it is when the id has no session, leaves no session for the id, leaves
\* the session of every other id as it is, and applied a second time gives
\* the store it gave the first time.
C12_EndSessionIdempotent ==
    \A c \in CallSids :
        /\ sessions[c] = NoSession => endSession(sessions, c) = sessions
        /\ endSession(sessions, c)[c] = NoSession
        /\ \A d \in CallSids \ {c} : endSession(sessions, c)[d] = sessions[d]
        /\ endSession(endSession(sessions, c), c) = endSession(sessions, c)

\* a terminal status arrived for a call that has no session:
\* the handler returned 200 and the store is as it was
C12_Witness ==
    /\ response.to.path = "/webhook/status"
    /\ response.to.CallStatus = "completed"
    /\ response.to.CallSid = "c1"
    /\ response.status = 200
    /\ response.outcome = ""
    /\ sessions["c1"] = NoSession
    /\ \E r \in Reqs : reqs[r].pc = "done"

\* the session stored for c is not the one stored before the step, whose
\* start time or counters are lost
Discarded(c) ==
    /\ sessions[c] # NoSession
    /\ \/ sessions'[c] = NoSession
       \/ sessions'[c].startTime # sessions[c].startTime
       \/ sessions'[c].metadata.totalMessages < sessions[c].metadata.totalMessages
       \/ sessions'[c].metadata.errors < sessions[c].metadata.errors

\* C13: a step in which a stored session disappears or is replaced by a new
\* one is the step of a status event for its call id or a run of the sweep.
C13_OnlyEndOrSweepDestroys ==
    [][ \A c \in CallSids :
          Discarded(c)
          => \/ response'.to.path = "/webhook/status" /\ response'.to.CallSid = c
             \/ response'.to.path = "setInterval" ]_vars

\* C14: a turn on a non-empty utterance goes from the appended utterance to
\* the completion request, from there to the analysis request, from there
\* to the synthesis request and from there to the response, one after the
\* other and none left out, so that the response of every such turn is sent
\* after the requests completion, analysis, synthesis in this order.
C14_NoStateSkipped ==
    [][ \A r \in Reqs :
          /\ (reqs'[r].pc # reqs[r].pc /\ response'.outcome # "noSpeech")
             => <<reqs[r].pc, reqs'[r].pc>> \in
                   { <<"new", "completion">>, <<"completion", "analysis">>,
                     <<"analysis", "synthesis">>, <<"synthesis", "done">> }
          /\ (reqs[r].pc \notin {"new", "done"} /\ reqs'[r].pc = "done")
             => response'.calls = <<"completion", "analysis", "synthesis">> ]_vars

\* the analysis request of the turn r fails in this step: the request
\* itself, or the parsing of its answer
AnalysisFailed(r) ==
    /\ reqs[r].pc = "analysis"
    /\ reqs'[r].pc # "analysis"
    /\ response'.outcome \in {"error", "unparseable"}

\* C15: in the step in which the analysis of a turn fails, the turn goes on
\* to the synthesis, the context of the call's session is the default
\* analysis (no user name, topic general, mood neutral, intent
\* conversation, shouldEndCall false), the reply is added to the history and
\* errors is what it was; and every turn that came to the synthesis is
\* answered with the audio or the text response, which gathers and does not
\* hang up, errors still being what it was.
C15_AnalysisFailureAbsorbed ==
    [][ \A r \in Reqs :
          /\ AnalysisFailed(r)
             => LET c == reqs[r].CallSid
                IN  /\ reqs'[r].pc = "synthesis"
                    /\ sessions'[c] # NoSession
                    /\ sessions'[c].context =
                          [userName |-> "<null>", topic |-> "general", mood |-> "neutral",
                           intent |-> "conversation", shouldEndCall |-> "<false>"]
                    /\ sessions'[c].messages[Len(sessions'[c].messages)] =
                          [role |-> "assistant", content |-> <<"reply", r>>]
                    /\ ErrorsOf(sessions', c) = ErrorsOf(sessions, c)
          /\ (reqs[r].pc = "synthesis" /\ reqs'[r].pc = "done")
             => /\ response'.body[1].verb \in {"Play", "Say"}
                /\ HasVerb(response'.body, "Gather")
                /\ ~HasVerb(response'.body, "Hangup")
                /\ ErrorsOf(sessions', reqs[r].CallSid) = ErrorsOf(sessions, reqs[r].CallSid) ]_vars

\* the answer of the analyzer could not be parsed in the second turn of a
\* call: the turn awaits the synthesis with the default context
C15_Witness ==
    /\ response.outcome = "unparseable"
    /\ reqs[2].pc = "synthesis"
    /\ sessions["c1"] # NoSession
    /\ sessions["c1"].context.topic = "general"
    /\ sessions["c1"].metadata.errors = 0
    /\ Len(sessions["c1"].messages) = 4

\* analyses merged into the context: one with every key, one with two keys
SomeAnalyses ==
    { [userName |-> "Ann", topic |-> "weather", mood |-> "positive",
       intent |-> "chat", shouldEndCall |-> "<true>"],
      [topic |-> "billing", mood |-> "angry"],
      [userName |-> "<null>", topic |-> "general", mood |-> "neutral",
       intent |-> "conversation", shouldEndCall |-> "<false>"] }

\* the context `after` is the context `before` with the fields of the
\* analysis a set to the values of a, and its other fields as they were
IsShallowMerge(before, a, after) ==
    /\ DOMAIN after = DOMAIN before \cup DOMAIN a
    /\ \A k \in DOMAIN a : after[k] = a[k]
    /\ \A k \in DOMAIN before \ DOMAIN a : after[k] = before[k]

\* C16: in every state, updateContext with an analysis gives, for every call
\* id, a session whose context has the analysis's value in every field of
\* the analysis and the previous value in every other field, and whose
\* history and metrics are those of the session getSession returns; and in
\* the step of a turn in which a parsed analysis is merged, the context of
\* the call's session is such a merge of the context before the step.
C16_ShallowMerge ==
    /\ [](\A c \in CallSids, a \in SomeAnalyses :
             LET before == Touched(sessions, c, now)
                 after  == updateContext(sessions, c, a, now)
             IN  /\ after[c] # NoSession
                 /\ IsShallowMerge(before.context, a, after[c].context)
                 /\ after[c].messages = before.messages
                 /\ after[c].metadata = before.metadata
                 /\ after[c].startTime = before.startTime
                 /\ \A d \in CallSids \ {c} : after[d] = sessions[d])
    /\ [][ \A r \in Reqs :
              (reqs[r].pc = "analysis" /\ reqs'[r].pc = "synthesis"
                  /\ response'.outcome = "object")
              => \E a \in SomeAnalyses :
                    IsShallowMerge(Touched(sessions, reqs[r].CallSid, now).context, a,
                                   sessions'[reqs[r].CallSid].context) ]_vars

\* an analysis with the topic and the mood alone was merged into a context
\* that had a user name and an intent, which it still has
C16_Witness ==
    /\ response.outcome = "object"
    /\ sessions["c1"] # NoSession
    /\ DOMAIN sessions["c1"].context =
          {"userName", "topic", "mood", "intent", "shouldEndCall"}
    /\ sessions["c1"].context.userName = "Ann"
    /\ sessions["c1"].context.intent = "chat"
    /\ sessions["c1"].context.topic = "billing"
    /\ sessions["c1"].context.mood = "angry"

\* the system prompt of the message list built for the turn r
PromptOf(r) == reqs[r].messages[1].content

\* the field of the context holds a value: not null, not empty
IsSet(x) == x \notin {"<null>", "<undefined>", ""}

\* C17: the system prompt built for a turn has, after the preamble, the
\* user-name line alone when the context of the session has a user name
\* (whether or not it has a topic), the topic line alone when it has a
\* topic and no user name, and no line when it has neither.
C17_OneContextLine ==
    [][ \A r \in Reqs :
          (reqs[r].pc = "new" /\ reqs'[r].pc = "completion")
          => LET context == Touched(sessions, reqs'[r].CallSid, now).context
                 prompt  == reqs'[r].messages[1]
             IN  /\ prompt.role = "system"
                 /\ prompt.content.base = "basePrompt"
                 /\ Len(prompt.content.extra) <= 1
                 /\ prompt.content.extra =
                       IF IsSet(context.userName)
                       THEN << <<"User's name", context.userName>> >>
                       ELSE IF IsSet(context.topic)
                       THEN << <<"Current topic", context.topic>> >>
                       ELSE << >> ]_vars

\* a prompt was built from a context with a user name and a topic: it has
\* the user-name line alone
C17_Witness ==
    /\ reqs[2].pc = "completion"
    /\ sessions["c1"] # NoSession
    /\ sessions["c1"].context.userName = "Ann"
    /\ sessions["c1"].context.topic = "weather"
    /\ PromptOf(2).extra = << <<"User's name", "Ann">> >>

\* C18: the message list with which the completion is requested for a turn
\* is the system prompt followed by the messages of the session's history
\* as (role, content) pairs, oldest first; its last message is the user
\* message with the utterance of the turn, which it holds once.
C18_CompletionGetsHistory ==
    [][ \A r \in Reqs :
          (reqs[r].pc = "new" /\ reqs'[r].pc = "completion")
          => LET history == sessions'[reqs'[r].CallSid].messages
                 sent    == reqs'[r].messages
             IN  /\ sent[1].role = "system"
                 /\ Len(sent) = 1 + Len(history)
                 /\ \A i \in 1 .. Len(history) :
                       sent[i + 1] = [role |-> history[i].role,
                                      content |-> history[i].content]
                 /\ sent[Len(sent)] = [role |-> "user",
                                       content |-> reqs'[r].SpeechResult]
                 /\ Cardinality({i \in 2 .. Len(sent) :
                                     sent[i].content = reqs'[r].SpeechResult}) = 1 ]_vars

\* the verb gathers speech and posts it to the speech-processing webhook,
\* given by its full URL or by its path
GathersSpeech(verb) ==
    /\ verb.verb = "Gather"
    /\ verb.arg \in { <<"https://web-production-cb494.up.railway.app/webhook/process-speech", 0>>,
                      <<"/webhook/process-speech", 0>> }

\* C19: the response to a speech request without speech result starts with
\* the gathering of speech; the response of a turn whose synthesis
\* succeeded plays the audio and then gathers; the response of a turn whose
\* synthesis failed speaks the reply and then gathers; the response of the
\* catch block speaks the apology and hangs up, and gathers nothing; each
\* gathering posts to the speech-processing webhook.
C19_DirectiveRendering ==
    [][ LET body == response'.body
        IN  /\ response'.outcome = "noSpeech" => GathersSpeech(body[1])
            /\ response'.outcome = "ok"
               => /\ body[1].verb = "Play"
                  /\ GathersSpeech(body[2])
            /\ response'.outcome \in {"ttsFailed", "saveFailed"}
               => /\ body[1].verb = "Say"
                  /\ body[1].arg[1] = "reply"
                  /\ GathersSpeech(body[2])
            /\ response'.outcome = "exception"
               => /\ Len(body) = 2
                  /\ body[1] = [verb |-> "Say",
                                arg |-> <<"I'm sorry, I had trouble understanding. Could you try again?", 0>>]
                  /\ body[2].verb = "Hangup" ]_vars

\* the text-to-speech request of a turn failed: the reply was spoken and the
\* next utterance is gathered
C19_Witness ==
    /\ response.outcome = "ttsFailed"
    /\ response.body[1].verb = "Say"
    /\ GathersSpeech(response.body[2])
    /\ response.to.path = "/webhook/process-speech"

\* C20 as stated: no response to a speech request without speech result and
\* no response of a turn that came to the synthesis has a hangup.
C20_TurnPathNeverHangsUp ==
    [][ response'.outcome \in {"noSpeech", "ok", "ttsFailed", "saveFailed"}
        => ~HasVerb(response'.body, "Hangup") ]_vars

\* C20: the response of a turn that came to the synthesis, with audio or
\* with text, has no hangup and ends with the redirect to the
\* speech-processing webhook after its gathering; the response to a speech
\* request without speech result gathers, then says goodbye and hangs up.
C20_AudioAndTextNeverHangUp ==
    [][ LET body == response'.body
        IN  /\ response'.outcome \in {"ok", "ttsFailed", "saveFailed"}
               => /\ ~HasVerb(body, "Hangup")
                  /\ GathersSpeech(body[2])
                  /\ body[Len(body)].verb = "Redirect"
                  /\ body[Len(body)].arg = body[2].arg
            /\ response'.outcome = "noSpeech"
               => /\ Len(body) = 3
                  /\ GathersSpeech(body[1])
                  /\ body[2] = [verb |-> "Say",
                                arg |-> <<"I didn't hear a response. Thank you for calling!", 0>>]
                  /\ body[3].verb = "Hangup" ]_vars

\* a speech request without the SpeechResult field was answered: gathering,
\* goodbye, hangup
C20_Witness ==
    /\ response.outcome = "noSpeech"
    /\ response.to.SpeechResult = UndefinedText
    /\ response.body[Len(response.body)].verb = "Hangup"
    /\ \E r \in Reqs : reqs[r].pc = "done"

\* C23: in the step in which the synthesis of a turn fails the response
\* speaks the reply and errors of the call's session goes up by 1, as in the
\* step in which the completion fails the response speaks the apology and
\* errors goes up by 1.
C23_FailuresCountAsErrors ==
    [][ \A r \in Reqs :
          /\ SynthesisFailed(r)
             => /\ response'.body[1] = [verb |-> "Say", arg |-> reqs[r].response]
                /\ ErrorsOf(sessions', reqs[r].CallSid)
                      = ErrorsOf(sessions, reqs[r].CallSid) + 1
          /\ CompletionFailed(r)
             => /\ response'.body[1].verb = "Say"
                /\ ErrorsOf(sessions', reqs[r].CallSid)
                      = ErrorsOf(sessions, reqs[r].CallSid) + 1 ]_vars

\* the summary the statistics query is to give for the stored session c
SummaryOf(c) ==
    [ callSid             |-> c,
      duration            |-> now - sessions[c].startTime,
      totalMessages       |-> sessions[c].metadata.totalMessages,
      averageResponseTime |->
          LET avg == sessions[c].metadata.averageResponseTime
          IN  IF avg.den > 0
              THEN [num |-> (2 * avg.num + avg.den) \div (2 * avg.den), den |-> 1]
              ELSE avg,
      errors              |-> sessions[c].metadata.errors,
      lastActivity        |-> sessions[c].lastActivity ]

\* C24: the step of a statistics query leaves the store as it is (it
\* creates no session and refreshes no lastActivity), answers 200 with the
\* number of the stored sessions and with exactly one summary for each
\* stored session, which has the session's counters, its duration up to now
\* and its average rounded to the nearest integer.
C24_StatsReadOnlyExact ==
    [][ response'.to.path = "/api/conversations"
        => LET stored == {c \in CallSids : sessions[c] # NoSession}
           IN  /\ sessions' = sessions
               /\ reqs' = reqs
               /\ response'.status = 200
               /\ response'.body.activeSessions = Cardinality(stored)
               /\ response'.body.sessions = {SummaryOf(c) : c \in stored} ]_vars

\* a statistics query was answered with the summary of a session that was
\* started before now, was last active before now and has a recorded turn
C24_Witness ==
    /\ response.to.path = "/api/conversations"
    /\ response.body.activeSessions = 1
    /\ sessions["c1"] # NoSession
    /\ sessions["c1"].startTime < sessions["c1"].lastActivity
    /\ sessions["c1"].lastActivity < now
    /\ Len(recorded["c1"]) = 1
    /\ \E s \in response.body.sessions : s.callSid = "c1" /\ s.totalMessages = 2

\* the smaller of two numbers
Min(a, b) == IF a < b THEN a ELSE b

\* the history of c after the step is the history before it with the
\* message appended and the oldest messages beyond the window dropped
Appended(c, message) ==
    /\ sessions'[c] # NoSession
    /\ sessions'[c].messages =
          LastN(Append(MessagesOf(sessions, c), message), maxConversationLength)
    /\ sessions'[c].metadata.totalMessages
          = (IF sessions[c] = NoSession THEN 0 ELSE sessions[c].metadata.totalMessages) + 1

\* C25: in every state the history of a session has min(m, N) messages,
\* m being the number of messages added since the session was created and N
\* maxConversationLength; every step that adds a message (the utterance
\* when a turn starts, the reply when its analysis has ended) leaves the
\* last N of the history followed by the new message, in this order; and
\* every other step of a turn leaves the history as it is.
C25_OldestEvictedFirst ==
    /\ [](\A c \in CallSids :
             sessions[c] # NoSession
             => Len(sessions[c].messages)
                   = Min(sessions[c].metadata.totalMessages, maxConversationLength))
    /\ [][ \A r \in Reqs :
              /\ (reqs[r].pc = "new" /\ reqs'[r].pc = "completion")
                 => Appended(reqs'[r].CallSid,
                             [role |-> "user", content |-> reqs'[r].SpeechResult])
              /\ (reqs[r].pc = "analysis" /\ reqs'[r].pc = "synthesis")
                 => Appended(reqs[r].CallSid,
                             [role |-> "assistant", content |-> reqs[r].response])
              /\ (reqs[r].pc \in {"completion", "synthesis"} /\ reqs'[r].pc # reqs[r].pc)
                 => MessagesOf(sessions', reqs[r].CallSid)
                       = MessagesOf(sessions, reqs[r].CallSid) ]_vars

\* one message more than the window holds was added to a session: the
\* history has N messages, starts with the second message added (the reply
\* of the first turn) and ends with the last one added
C25_Witness ==
    /\ sessions["c1"] # NoSession
    /\ sessions["c1"].metadata.totalMessages = maxConversationLength + 1
    /\ Len(sessions["c1"].messages) = maxConversationLength
    /\ sessions["c1"].messages[1] = [role |-> "assistant", content |-> <<"reply", 1>>]
    /\ \A i \in 1 .. maxConversationLength :
          sessions["c1"].messages[i].content # <<"utterance", 1>>
    /\ sessions["c1"].messages[maxConversationLength].role = "assistant"

\* C26: when the response time of a turn is recorded, the session's
\* totalMessages, which recordResponseTime takes for the number of samples,
\* is the number of turns of the session completed so far, this one
\* included.
C26_TurnCountCountsTurns ==
    [][ \A r \in Reqs :
          (reqs[r].pc = "synthesis" /\ reqs'[r].pc = "done")
          => sessions'[reqs[r].CallSid].metadata.totalMessages
                = Len(recorded'[reqs[r].CallSid]) ]_vars

\* the step sends the HTTP response of speech request r
Answers(r) ==
    /\ response'.to.path = "/webhook/process-speech"
    /\ response'.to.id = r
    /\ response'.status # 0

\* the renderings a speech request is answered with: listen again, play the
\* audio and listen, speak the text and listen, speak the apology
IsRendering(body) ==
    \/ body = generateContinueConversation
    \/ body = generateError(TroubleUnderstanding)
    \/ /\ Len(body) >= 2
       /\ body[1].verb \in {"Play", "Say"}
       /\ GathersSpeech(body[2])

\* C28: the step in which the handler of a speech request returns, on
\* whichever path, sends the response of that request, with status 200 and
\* one of the four renderings as its body; and no other step sends a
\* response of that request, so that it is answered once.
C28_ExactlyOneResponse ==
    [][ \A r \in Reqs :
          /\ (reqs[r].pc # "done" /\ reqs'[r].pc = "done")
             => /\ Answers(r)
                /\ response'.status = 200
                /\ IsRendering(response'.body)
          /\ Answers(r) => (reqs[r].pc # "done" /\ reqs'[r].pc = "done") ]_vars

\* the second speech request of a call is answered with the apology after
\* its completion request failed and the fallback could not be built
C28_Witness ==
    /\ response.to.path = "/webhook/process-speech"
    /\ response.to.id = 2
    /\ response.outcome = "exception"
    /\ response.status = 200
    /\ response.body = generateError(TroubleUnderstanding)
    /\ reqs[1].pc = "done"
    /\ reqs[2].pc = "done"

\* C30: the mood of every stored session's context is positive, neutral or
\* negative.
C30_MoodIsEnumerated ==
    \A c \in CallSids :
        sessions[c] # NoSession
        => sessions[c].context.mood \in {"positive", "neutral", "negative"}

\* C27: the messages analysed for a turn, after the analysis prompt, are
\* the last five messages of the session's history as it is once the
\* turn's reply is appended (all of them when there are fewer), as (role,
\* content) pairs in order, and none of them is a system message.
C27_AnalysisOverLastFive ==
    [][ \A r \in Reqs :
          (reqs[r].pc = "analysis" /\ reqs'[r].pc = "synthesis")
          => LET window   == LastN(sessions'[reqs[r].CallSid].messages, AnalysisWindow)
                 analysed == Tail(reqs[r].analysed)
             IN  /\ Len(analysed) = Len(window)
                 /\ \A i \in 1 .. Len(analysed) :
                       /\ analysed[i].role # "system"
                       /\ i <= Len(window)
                          => analysed[i] = [role |-> window[i].role,
                                            content |-> window[i].content] ]_vars

\* the analysis with the other end-of-call signal
OtherSignal(analysis) ==
    [analysis EXCEPT !.shouldEndCall = IF @ = JsTrue THEN JsFalse ELSE JsTrue]

\* the sessions are the same but for the end-of-call signal in the context
SameButSignal(s1, s2) ==
    /\ s1 # NoSession
    /\ s2 # NoSession
    /\ s1.messages = s2.messages
    /\ s1.metadata = s2.metadata
    /\ s1.startTime = s2.startTime
    /\ s1.lastActivity = s2.lastActivity
    /\ DOMAIN s1.context = DOMAIN s2.context
    /\ \A k \in DOMAIN s1.context \ {"shouldEndCall"} : s1.context[k] = s2.context[k]

\* C29: for every turn that awaits its analysis, and every analysis with an
\* end-of-call signal, the store the handler leaves for that analysis and
\* the store it leaves for the same analysis with the other signal hold the
\* same sessions, the turn's session differing at most in the signal stored
\* in its context; and the response of a turn is the audio or the text
\* rendering as the synthesis alone decides, has no hangup and leaves the
\* session in the store, whatever signal the context holds.
C29_EndSignalHasNoEffect ==
    /\ [](\A r \in Reqs : \A a \in ParsedAnalyses :
             (reqs[r].pc = "analysis" /\ "shouldEndCall" \in DOMAIN a)
             => LET c  == reqs[r].CallSid
                    S1 == StoreAfterResult(sessions, c,
                              [response |-> reqs[r].response, analysis |-> a], now)
                    S2 == StoreAfterResult(sessions, c,
                              [response |-> reqs[r].response,
                               analysis |-> OtherSignal(a)], now)
                IN  /\ SameButSignal(S1[c], S2[c])
                    /\ \A d \in CallSids \ {c} : S1[d] = S2[d])
    /\ [][ \A r \in Reqs :
              (reqs[r].pc = "synthesis" /\ reqs'[r].pc = "done")
              => /\ response'.body[1].verb
                       = (IF response'.outcome = "ok" THEN "Play" ELSE "Say")
                 /\ ~HasVerb(response'.body, "Hangup")
                 /\ sessions'[reqs[r].CallSid] # NoSession ]_vars

\* a turn whose analysis said that the call should end is answered with
\* the audio and the gathering of the next utterance; the signal is in the
\* context of the session, which is in the store with both messages
C29_Witness ==
    /\ response.to.path = "/webhook/process-speech"
    /\ response.outcome = "ok"
    /\ response.body[1].verb = "Play"
    /\ GathersSpeech(response.body[2])
    /\ sessions["c1"] # NoSession
    /\ "shouldEndCall" \in DOMAIN sessions["c1"].context
    /\ sessions["c1"].context.shouldEndCall = JsTrue
    /\ Len(sessions["c1"].messages) = 2

\* the step answers a call-start event of the call c with the greeting
Greets(c) ==
    /\ response'.to = VoiceRequest(c)
    /\ response'.body = generateGreeting

\* the session of c is as the call-start event of c created it: nothing has
\* touched it since the call was greeted
JustStarted(c) ==
    /\ sessions[c] # NoSession
    /\ sessions[c] = NewSession(c, sessions[c].startTime)

\* C21: a call is greeted once: no step sends the greeting to a call that
\* has started and been greeted before, its session being in the store as
\* its call-start event left it.
C21_GreetedOnce ==
    [][ \A c \in CallSids : JustStarted(c) => ~Greets(c) ]_vars

\* C22: every turn that has requested its completion returns in the end.
C22_TurnReturns ==
    \A r \in Reqs : (reqs[r].pc = "completion") ~> (reqs[r].pc = "done")

\* C33: in every state the sweep gives, for every call id, no session or
\* the stored session with every field as it is, and no session where none is
\* stored; and after a run of the timer every session in the store is, field
\* by field, the session that was stored under its id before the run.
C33_SweepOnlyRemoves ==
    /\ [](\A c \in CallSids :
             LET swept == cleanupOldSessions(sessions, now)
             IN  /\ swept[c] \in {NoSession, sessions[c]}
                 /\ DOMAIN swept = DOMAIN sessions)
    /\ [][ response'.to.path = "setInterval"
           => \A c \in CallSids :
                 sessions'[c] # NoSession
                 => /\ sessions[c] # NoSession
                    /\ sessions'[c].messages = sessions[c].messages
                    /\ sessions'[c].context = sessions[c].context
                    /\ sessions'[c].metadata = sessions[c].metadata
                    /\ sessions'[c].startTime = sessions[c].startTime
                    /\ sessions'[c].lastActivity = sessions[c].lastActivity ]_vars

\* the timer ran an hour after the last activity of a session that holds a
\* turn: the session is kept, its lastActivity still an hour ago
C33_Witness ==
    /\ response.to.path = "setInterval"
    /\ response.body = <<0>>
    /\ sessions["c1"] # NoSession
    /\ Len(sessions["c1"].messages) = 2
    /\ sessions["c1"].lastActivity = now - OneHour

\* C34: a session appears in the store under an id that had none only in
\* the step of a call-start event for that id or in the step in which a
\* speech event for that id is received; the steps in which a turn already
\* under way resumes create none.
C34_NoSessionAfterEnd ==
    [][ \A c \in CallSids :
          (sessions[c] = NoSession /\ sessions'[c] # NoSession)
          => \/ response'.to.path = "/webhook/voice" /\ response'.to.CallSid = c
             \/ \E r \in Reqs : Received(r) /\ reqs'[r].CallSid = c ]_vars

\* C35: the averageResponseTime of every stored session is a finite number
\* that is not negative.
C35_AverageIsFinite ==
    \A c \in CallSids :
        sessions[c] # NoSession
        => /\ IsFinite(sessions[c].metadata.averageResponseTime)
           /\ sessions[c].metadata.averageResponseTime.num >= 0

\* C38: in the step in which the completion or the analysis of a turn
\* fails, the userName in the context of the call's session stays what it
\* was when the session was stored before the step.
C38_NameSurvivesFailure ==
    [][ \A r \in Reqs :
          ( /\ CompletionFailed(r) \/ AnalysisFailed(r)
            /\ sessions[reqs[r].CallSid] # NoSession )
          => /\ sessions'[reqs[r].CallSid] # NoSession
             /\ sessions'[reqs[r].CallSid].context.userName
                   = sessions[reqs[r].CallSid].context.userName ]_vars

\* the step appends a message to the history of the call c
Appends(c) ==
    \E r \in Reqs :
        \/ reqs[r].pc = "new" /\ reqs'[r].pc = "completion" /\ reqs'[r].CallSid = c
        \/ /\ reqs[r].pc \in {"completion", "analysis"}
           /\ reqs'[r].pc = "synthesis"
           /\ reqs[r].CallSid = c

\* C37: in every state the history of a session has totalMessages
\* messages, or maxConversationLength when totalMessages is greater; and in
\* every step other than a call-start event, which stores a new session,
\* the totalMessages of a session that stays stored goes up by 1 when the
\* step appends a message to it, also when the window is full, and is left
\* as it is otherwise, and that of a session the step stores is 1 when the
\* step appends a message and 0 otherwise.
C37_CountsEveryAppend ==
    /\ [](\A c \in CallSids :
             sessions[c] # NoSession
             => Len(sessions[c].messages)
                   = (IF sessions[c].metadata.totalMessages < maxConversationLength
                      THEN sessions[c].metadata.totalMessages
                      ELSE maxConversationLength))
    /\ [][ \A c \in CallSids :
              (sessions'[c] # NoSession /\ response'.to.path # "/webhook/voice")
              => sessions'[c].metadata.totalMessages
                    = (IF sessions[c] = NoSession
                       THEN 0 ELSE sessions[c].metadata.totalMessages)
                      + (IF Appends(c) THEN 1 ELSE 0) ]_vars

\* three turns were completed on one session: six messages were counted
\* and the window holds the last four of them
C37_Witness ==
    /\ sessions["c1"] # NoSession
    /\ sessions["c1"].metadata.totalMessages = maxConversationLength + 2
    /\ Len(sessions["c1"].messages) = maxConversationLength
    /\ InFlight = {}
    /\ \A r \in Reqs : reqs[r].pc = "done"

\* C39: the step that answers a speech event without speech result leaves
\* no session stored for a call id that had none and leaves the session of
\* every other id, its lastActivity included, as it was, so that a session
\* the sweep would remove before the step is one it would remove after it.
C39_SilenceDoesNotTouch ==
    [][ response'.outcome = "noSpeech"
        => \A c \in CallSids :
              /\ sessions[c] = NoSession => sessions'[c] = NoSession
              /\ sessions[c] # NoSession
                 => /\ sessions'[c] # NoSession
                    /\ sessions'[c].lastActivity = sessions[c].lastActivity
                    /\ cleanupOldSessions(sessions', now')[c]
                          = cleanupOldSessions(sessions, now)[c] ]_vars

\* a speech event without speech result was answered for a call whose
\* session was last touched more than an hour before: the sweep would
\* remove the session of the call the event came from
C39_Witness ==
    /\ response.outcome = "noSpeech"
    /\ response.to.CallSid = "c1"
    /\ sessions["c1"] # NoSession
    /\ IsOld(sessions["c1"], now)
    /\ cleanupOldSessions(sessions, now)["c1"] = NoSession

\* the call id of the event the step handles: that of the turn that moves,
\* or that of the request the step answers
StepCallSid ==
    IF \E r \in Reqs : reqs'[r].pc # reqs[r].pc
    THEN LET r == CHOOSE q \in Reqs : reqs'[q].pc # reqs[q].pc
         IN  IF reqs[r].pc # "new" THEN reqs[r].CallSid
             ELSE IF reqs'[r].pc = "done" THEN response'.to.CallSid
             ELSE reqs'[r].CallSid
    ELSE response'.to.CallSid

\* C36: in every state each operation of the store on the call id A, at
\* whatever time, leaves under every other id B what is stored there, a
\* session with all its fields or none; and every step that handles an
\* event of a call or resumes one of its turns leaves under every other id
\* what is stored there, also while turns of both calls are under way.
C36_SessionsIsolated ==
    /\ [](\A A \in CallSids : \A B \in CallSids \ {A} :
             \A a \in ParsedAnalyses :
                /\ createSession(sessions, A, now + 1)[B] = sessions[B]
                /\ getSession(sessions, A, now + 1)[B] = sessions[B]
                /\ addMessage(sessions, A, "user", Utterance(1), now + 1)[B] = sessions[B]
                /\ updateContext(sessions, A, a, now + 1)[B] = sessions[B]
                /\ recordResponseTime(sessions, A, 1, now + 1)[B] = sessions[B]
                /\ recordError(sessions, A, now + 1)[B] = sessions[B]
                /\ endSession(sessions, A)[B] = sessions[B])
    /\ [][ response'.to.path \notin {"setInterval", "/api/conversations"}
           => \A B \in CallSids \ {StepCallSid} : sessions'[B] = sessions[B] ]_vars

\* a turn of each of two calls is under way, the one awaiting its synthesis
\* and the other its analysis, and each call has its own session
C36_Witness ==
    /\ reqs[1].pc = "synthesis"
    /\ reqs[2].pc = "analysis"
    /\ reqs[1].CallSid # reqs[2].CallSid
    /\ sessions[reqs[1].CallSid] # NoSession
    /\ sessions[reqs[2].CallSid] # NoSession
    /\ Len(sessions[reqs[1].CallSid].messages) = 2
    /\ Len(sessions[reqs[2].CallSid].messages) = 1

\* the text has two characters `ch` in a row
HasRun(text, ch) ==
    \E i \in 1 .. Len(text) - 1 : text[i] = ch /\ text[i + 1] = ch

\* C31: the text generatePhoneSpeech sends to the text-to-speech service
\* ends with ., ! or ? and has no two ., no two ! and no two ? in a row.
C31_EndsWithPunctuation ==
    phoneSpeech.pc = "textToSpeech"
    => LET out == phoneSpeech.phoneOptimizedText
       IN  /\ out # << >>
           /\ out[Len(out)] \in {".", "!", "?"}
           /\ \A ch \in {".", "!", "?"} : ~HasRun(out, ch)

\* the three rules of the transform applied in the order first, second,
\* third (1: collapse the runs, 2: expand the abbreviations, 3: end the
\* sentence)
Rule(k, text) ==
    IF k = 1 THEN collapsePunctuation(text)
    ELSE IF k = 2 THEN expandAbbreviations(text)
    ELSE ensureSentenceEnding(text)

InOrder(order, text) == Rule(order[3], Rule(order[2], Rule(order[1], text)))

Orders == {order \in [1 .. 3 -> 1 .. 3] : {order[1], order[2], order[3]} = 1 .. 3}

\* the text holds one of the abbreviations at the start of a word
HasAbbreviation(text) ==
    \E k \in 1 .. Len(Abbreviations) : \E i \in 1 .. Len(text) :
        MatchesAt(text, i, Abbreviations[k].abbr) /\ WordStartsAt(text, i)

\* C32: the text generatePhoneSpeech sends to the text-to-speech service is
\* what the three rules give in each of their six orders, and holds none of
\* the abbreviations.
C32_OrderIndependent ==
    phoneSpeech.pc = "textToSpeech"
    => /\ \A order \in Orders :
             InOrder(order, phoneSpeech.text) = phoneSpeech.phoneOptimizedText
       /\ ~HasAbbreviation(phoneSpeech.phoneOptimizedText)

====
